---- MODULE Spec2Model ----
(***************************************************************************)
(* Model of the JPEG marker scanner of imagemeta (package jpeg, ScanJPEG   *)
(* and the jpegReader methods).  One step of the model is one iteration   *)
(* of the scan loop of ScanJPEG, with every call the iteration makes.     *)
(*                                                                         *)
(* The stream is a finite sequence of bytes behind an io.Reader that      *)
(* hands over everything it has in one Read, wrapped by ScanJPEG in a     *)
(* fresh bufio.Reader of bufferSize bytes: the buffer then holds the      *)
(* stream from offset 0, followed by zero bytes.                          *)
(*                                                                         *)
(* The second part is the Exif resolver (package exif: ParseExif,         *)
(* Data.ParseIfd, Data.GetTag, Data.GetTagValue, Data.RangeTags), run by   *)
(* the specification ExifSpec on a TIFF block given as a directory graph. *)
(* Spec runs the scanner and leaves the resolver idle; ExifSpec runs the  *)
(* resolver and leaves the scanner at its start.                           *)
(*                                                                         *)
(* The third part is DCT2D (package transforms) with the goroutines it    *)
(* starts, run by the specification DCTSpec.                               *)
(***************************************************************************)
EXTENDS Integers, Sequences, FiniteSets, TLC

VARIABLES
    data,       \* the bytes of the underlying stream
    exifSet,    \* TRUE iff the exifReader argument is not nil
    xmpSet,     \* TRUE iff the xmpReader argument is not nil
    br,         \* jr.br: number of bytes consumed from the bufio.Reader
    discarded,  \* jr.discarded (uint32)
    pos,        \* jr.pos (uint8), the SOI/EOI nesting counter
    sofHeader,  \* jr.sofHeader
    err,        \* the named result err of ScanJPEG
    pc,         \* "loop": at the top of the scan loop; "done": returned;
                \* "panic": left by a panic
    calls,      \* the callback invocations so far, oldest first
    ioErr,      \* the error the underlying reader has raised, if any
    last,       \* the loop iteration just executed
    tiff,       \* the TIFF block behind the io.ReaderAt: its directories
    exifData,   \* the *Data the caller holds (its reader and tagMap), or nil
    walk,       \* the directory walk in progress: the directories still to
                \* scan and the offsets scanned
    epc,        \* "idle": no resolver call is running; "scan": scanIFD runs
    ret,        \* what the last resolver operation returned
    reads,      \* directory reads issued on the io.ReaderAt so far
    reparses,   \* calls of ParseIfd so far
    gos,        \* the goroutines RangeTags has started, oldest first
    dims,       \* the arguments w and h of DCT2D
    main,       \* the goroutine that called DCT2D: its position and loop index
    wg,         \* the counter of the sync.WaitGroup of DCT2D
    rowgs,      \* the position of each row goroutine of DCT2D
    colgs       \* the position and the loop index of each column goroutine

svars == <<data, exifSet, xmpSet, br, discarded, pos, sofHeader, err, pc, calls, ioErr, last>>
evars == <<tiff, exifData, walk, epc, ret, reads, reparses, gos>>
dvars == <<dims, main, wg, rowgs, colgs>>
vars == <<svars, evars, dvars>>

(***************************************************************************)
(* Bounds of the model.                                                    *)
(***************************************************************************)
MaxItems == 2
CbSome == 1

(***************************************************************************)
(* Program constants.                                                      *)
(***************************************************************************)
bufferSize == 4096
peekSize == 16
markerFirstByte == 255
markerSOF0 == 192
markerSOF1 == 193
markerSOF2 == 194
markerSOF3 == 195
markerSOF5 == 197
markerSOF6 == 198
markerSOF7 == 199
markerSOF9 == 201
markerSOF10 == 202
markerDHT == 196
markerSOI == 216
markerEOI == 217
markerDQT == 219
markerDRI == 221
markerAPP0 == 224
markerAPP1 == 225
markerAPP2 == 226
markerAPP7 == 231
markerAPP8 == 232
markerAPP9 == 233
markerAPP10 == 234
markerAPP13 == 237
markerAPP14 == 238
exifPrefixLength == 8
xmpPrefixLength == 29
driDiscard == 6

exifPrefix == <<69, 120, 105, 102, 0, 0>>
jfifPrefix == <<74, 70, 73, 70, 0>>
jfifPrefixExt == <<74, 70, 88, 88, 0>>
iccPrefix == <<73, 67, 67, 95, 80, 82, 79, 70, 73, 76, 69>>
xmpPrefix ==
    <<104, 116, 116, 112, 58, 47, 47, 110, 115, 46, 97, 100, 111, 98, 101,
      46, 99, 111, 109, 47, 120, 97, 112, 47, 49, 46, 48, 47, 0>>
xmpPrefixExt ==
    <<104, 116, 116, 112, 58, 47, 47, 110, 115, 46, 97, 100, 111, 98, 101,
      46, 99, 111, 109, 47, 120, 109, 112, 47, 101, 120, 116, 101, 110,
      115, 105, 111, 110, 47>>
photoshopPrefix == <<80, 104, 111, 116, 111, 115, 104, 111, 112, 32>>

SOFMarkers ==
    {markerSOF0, markerSOF1, markerSOF2, markerSOF3, markerSOF5,
     markerSOF6, markerSOF7, markerSOF9, markerSOF10}
APP7to10 == {markerAPP7, markerAPP8, markerAPP9, markerAPP10}

(***************************************************************************)
(* Errors.                                                                 *)
(***************************************************************************)
NoErr == "nil"
ErrNoJPEGMarker == "ErrNoJPEGMarker"
ErrEndOfImage == "ErrEndOfImage"
ErrEOF == "io.EOF"
ErrIO == "ErrIO"
ErrNegativeCount == "bufio.ErrNegativeCount"
ErrExifCallback == "ErrExifCallback"
ErrXMPCallback == "ErrXMPCallback"
ErrRuntime == "runtime.Error"
\* the values a callback may hand to panic: an error, or a value that is
\* not an error (a string)
ErrPanicValue == "panic(error)"
PanicString == "panic(string)"
PanicValues == {ErrPanicValue, PanicString}
NoPanic == "none"
\* state.(error) in the deferred function of ScanJPEG: the recovered value
\* is an error
IsError(v) == v # PanicString
\* what the underlying reader may answer once the stream is exhausted: the
\* end of the file, or an I/O failure; one reader always answers the same
ReaderErrors == {ErrEOF, ErrIO}
FailWith == IF ioErr = NoErr THEN ReaderErrors ELSE {ioErr}

Min(a, b) == IF a < b THEN a ELSE b
Max(a, b) == IF a > b THEN a ELSE b
U8(x) == x % 256

\* A uint32 that is only carried around is kept as its two 16-bit halves.
\* Word32(x) is the conversion uint32(x) of an int x.
Word32(x) == [hi |-> (x \div 65536) % 65536, lo |-> x % 65536]

\* jr.discarded += uint32(n).  The streams of the model are far shorter
\* than 2^32 bytes, so the sum is below the width of the counter.
U32Add(a, n) == a + n

(***************************************************************************)
(* The streams the scan is run on: a head (nothing, SOI, a stray byte and *)
(* SOI, or two SOI), then up to MaxItems items, each a marker segment     *)
(* (well formed or not) or a stray byte, optionally followed by a tail of *)
(* zero bytes that lets the last item be classified.                      *)
(***************************************************************************)
\* the declared length of an Exif segment that, right after the SOI, ends 26
\* bytes before the end of the first buffer-full of the stream
BigLength == bufferSize - 30

Seg(code, L, payload) == <<markerFirstByte, code, L \div 256, L % 256>> \o payload

Zeros(n) == [i \in 1..n |-> 0]

Kinds ==
    {"JUNK", "SOI", "EOI", "SOF0", "DHT", "DQT", "DRI", "DRI5",
     "JFIF", "JFXX", "EXIFII", "EXIFMM", "EXIFSHORT",
     "XMP", "XMPSHORT", "APP1", "APP2", "APP2BIG", "APP7", "APP13",
     "APP14", "COM"}

Item(k) ==
    CASE k = "JUNK"      -> <<0>>
      [] k = "SOI"       -> <<markerFirstByte, markerSOI>>
      [] k = "EOI"       -> <<markerFirstByte, markerEOI>>
      [] k = "SOF0"      -> Seg(markerSOF0, 8, <<8, 0, 1, 0, 2, 3>>)
      [] k = "DHT"       -> Seg(markerDHT, 3, <<0>>)
      [] k = "DQT"       -> Seg(markerDQT, 3, <<0>>)
      [] k = "DRI"       -> Seg(markerDRI, 4, <<0, 1>>)
      [] k = "DRI5"      -> Seg(markerDRI, 5, <<0, 1, 0>>)
      [] k = "JFIF"      -> Seg(markerAPP0, 7, jfifPrefix)
      [] k = "JFXX"      -> Seg(markerAPP0, 7, jfifPrefixExt)
      [] k = "EXIFII"    -> Seg(markerAPP1, 18, exifPrefix \o <<73, 73, 42, 0, 8, 0, 0, 0, 1, 2>>)
      [] k = "EXIFMM"    -> Seg(markerAPP1, 18, exifPrefix \o <<77, 77, 0, 42, 0, 0, 0, 8, 1, 2>>)
      [] k = "EXIFSHORT" -> Seg(markerAPP1, 6, exifPrefix)
      [] k = "EXIFBIG"   -> Seg(markerAPP1, BigLength,
                                exifPrefix \o <<73, 73, 42, 0, 8, 0, 0, 0>>
                                    \o Zeros(BigLength - 16))
      [] k = "XMP"       -> Seg(markerAPP1, 34, xmpPrefix \o <<60, 120, 62>>)
      [] k = "XMPSHORT"  -> Seg(markerAPP1, 10, xmpPrefix)
      [] k = "APP1"      -> Seg(markerAPP1, 3, <<1>>)
      [] k = "APP2"      -> Seg(markerAPP2, 3, <<1>>)
      [] k = "APP2BIG"   -> Seg(markerAPP2, 200, <<1>>)
      [] k = "APP7"      -> Seg(markerAPP7, 3, <<1>>)
      [] k = "APP13"     -> Seg(markerAPP13, 3, <<1>>)
      [] k = "APP14"     -> Seg(markerAPP14, 3, <<1>>)
      [] k = "COM"       -> Seg(254, 3, <<1>>)

RECURSIVE Flat(_)
Flat(items) == IF items = <<>> THEN <<>> ELSE Item(Head(items)) \o Flat(Tail(items))

Tails == {<<>>, Zeros(peekSize)}
Heads == {<<>>, <<"SOI">>, <<"JUNK", "SOI">>, <<"SOI", "SOI">>}
ItemSeqs == UNION {[1..n -> Kinds] : n \in 0..MaxItems}

(***************************************************************************)
(* bufio.Reader: Peek and Discard on the buffered stream.                  *)
(***************************************************************************)
\* the bytes left in the stream from offset o
Avail(o) == Len(data) - o

\* buf[i] of a slice Peek returned at offset o; past the end of the stream
\* the buffer of a fresh bufio.Reader holds zero bytes
At(o, i) == IF o + i < Len(data) THEN data[o + i + 1] ELSE 0

\* buf[lo:hi]
Slice(o, lo, hi) == [k \in 1..(hi - lo) |-> At(o, lo + k - 1)]

\* buf[lo:hi] is within cap(buf): the buffer ends bufferSize bytes after
\* the start of the stream
InCap(o, hi) == o + hi <= bufferSize

\* jr.peek(n) succeeds iff n bytes are left; otherwise it returns the
\* reader's error
peekOK(o, n) == Avail(o) >= n

\* (*bufio.Reader).Discard(n) at offset o: the bytes skipped and the error
bufioDiscard(o, n) ==
    IF n < 0 THEN {[n |-> 0, err |-> ErrNegativeCount]}
    ELSE IF n <= Avail(o) THEN {[n |-> n, err |-> NoErr]}
    ELSE {[n |-> Avail(o), err |-> e] : e \in FailWith}

\* jr.discard consuming nothing
discard_None(s, i) == {[br |-> s.br, discarded |-> s.discarded, err |-> NoErr]}

\* jr.discard(i) on the reader state s = [br, discarded]
discard(s, i) ==
    IF i = 0
    THEN {[br |-> s.br, discarded |-> s.discarded, err |-> NoErr]}
    ELSE {[br |-> s.br + o.n, discarded |-> U32Add(s.discarded, o.n), err |-> o.err] :
            o \in bufioDiscard(s.br, i)}

\* markerLength(buf): the big-endian uint16 at buf[2:4]
markerLength(o) == At(o, 2) * 256 + At(o, 3)

isMarkerFirstByte(o) == At(o, 0) = markerFirstByte
isSOIMarker(o) == At(o, 0) = markerFirstByte /\ At(o, 1) = markerSOI
isPhotoshopPrefix(o) == Slice(o, 4, 14) = photoshopPrefix
isICCProfilePrefix(o) == Slice(o, 4, 15) = iccPrefix
isXMPPrefix(o) == Slice(o, 4, 33) = xmpPrefix
isXMPPrefixExt(o) == Slice(o, 4, 38) = xmpPrefixExt
isExifPrefix(o) == Slice(o, 4, 10) = exifPrefix
isJFIFPrefix(o) == Slice(o, 4, 9) = jfifPrefix
isJFIFPrefixExt(o) == Slice(o, 4, 9) = jfifPrefixExt
jfifHeader(o) == IF isJFIFPrefix(o) THEN markerLength(o) ELSE 0

(***************************************************************************)
(* The segment readers.  Each takes the offset o of the marker (where the *)
(* 16 peeked bytes start) and the reader state s = [br, discarded], and   *)
(* yields the set of its possible outcomes: the reader state after it,    *)
(* the error it returns, the callback invocations it made, and whether it *)
(* panicked.                                                               *)
(***************************************************************************)
Out(d, e, cs, p) ==
    [br |-> d.br, discarded |-> d.discarded, err |-> e, calls |-> cs, panic |-> p]

Returned(ds) == {Out(d, d.err, <<>>, FALSE) : d \in ds}

\* meta.BinaryOrder(buf): the byte order the byte-order mark names
BinaryOrder(o) ==
    IF At(o, 0) = 77 /\ At(o, 1) = 77 THEN {"BigEndian"}
    ELSE IF At(o, 0) = 73 /\ At(o, 1) = 73 THEN {"LittleEndian"}
    ELSE {"nil", "BigEndian", "LittleEndian"}

\* byteOrder.Uint32(buf[lo:lo+4])
Uint32(bo, o, lo) ==
    IF bo = "BigEndian"
    THEN [hi |-> At(o, lo) * 256 + At(o, lo + 1), lo |-> At(o, lo + 2) * 256 + At(o, lo + 3)]
    ELSE [hi |-> At(o, lo + 3) * 256 + At(o, lo + 2), lo |-> At(o, lo + 1) * 256 + At(o, lo)]

\* meta.NewExifHeader(byteOrder, firstIfdOffset, tiffHeaderOffset, exifLength, imageType)
NewExifHeader(bo, firstIfdOffset, tiffHeaderOffset, exifLength) ==
    [byteOrder |-> bo, firstIfdOffset |-> firstIfdOffset,
     tiffHeaderOffset |-> tiffHeaderOffset, exifLength |-> exifLength]

NoHeader == NewExifHeader("none", Word32(0), 0, Word32(0))

\* one callback invocation: which callback, the marker it was made for and
\* the marker's declared length, the stream offset and jr.discarded at the
\* call, the header handed over (Exif), the byte limit of the reader handed
\* over (XMP), the bytes the callback read, whether it returned an error and
\* the value it panicked with, if it did
Call(cb, o, L, d, h, limit, took, failed) ==
    [cb |-> cb, marker |-> o, len |-> L, at |-> d.br, disc |-> d.discarded,
     header |-> h, limit |-> limit, took |-> took, failed |-> failed,
     panic |-> NoPanic]

\* the callback invocation c ended in panic(v)
Panicking(c, v) == [c EXCEPT !.panic = v]

\* the numbers of bytes a callback may ask for: none, some, all of n
Takes(n) == {0, CbSome, Max(n, 0)}

\* what readExif still discards after the Exif callback returned: remain = 0
exifRemain(remain, took) == 0

\* readXMP forgetting what the callback left unread, as readExif does
xmpRemain_Zero(remain, took) == 0

\* what readXMP still discards after the XMP callback returned: the N of
\* the io.LimitedReader, the limit less the bytes read through it
xmpRemain(remain, took) == remain - took

ignoreMarker(o, s) == Returned(discard(s, markerLength(o) + 2))

readExif(o, s) ==
    LET L == markerLength(o)
        remain == L - exifPrefixLength
    IN  UNION {
          IF d1.err # NoErr THEN {Out(d1, d1.err, <<>>, FALSE)}
          ELSE IF ~peekOK(d1.br, exifPrefixLength)
          THEN {Out(d1, e, <<>>, FALSE) : e \in FailWith}
          ELSE IF ~exifSet THEN Returned(discard(d1, remain))
          ELSE UNION {
            IF bo = "nil" THEN {Out(d1, ErrRuntime, <<>>, TRUE)}
            ELSE LET h == NewExifHeader(bo, Uint32(bo, d1.br, 4), d1.discarded, Word32(remain))
                 IN  UNION {
                       LET took == Min(t, Avail(d1.br))
                           d2 == [br |-> d1.br + took, discarded |-> d1.discarded]
                       IN  { Out(d2, ErrExifCallback,
                                 <<Call("exif", o, L, d1, h, 0, took, TRUE)>>, FALSE) }
                           \cup
                           { Out(d2, v,
                                 <<Panicking(Call("exif", o, L, d1, h, 0, took, FALSE), v)>>,
                                 TRUE) : v \in PanicValues }
                           \cup
                           { Out(d3, d3.err,
                                 <<Call("exif", o, L, d1, h, 0, took, FALSE)>>, FALSE) :
                               d3 \in discard(d2, exifRemain(remain, took)) }
                       : t \in Takes(remain) }
            : bo \in BinaryOrder(d1.br) }
          : d1 \in discard(s, 2 + exifPrefixLength) }

readXMP(o, s) ==
    LET L == markerLength(o)
        remain == L - 2 - xmpPrefixLength
    IN  UNION {
          IF d1.err # NoErr THEN {Out(d1, d1.err, <<>>, FALSE)}
          ELSE IF ~xmpSet THEN Returned(discard(d1, remain))
          ELSE UNION {
                 LET took == Min(Min(t, Max(remain, 0)), Avail(d1.br))
                     d2 == [br |-> d1.br + took, discarded |-> d1.discarded]
                 IN  { Out(d2, ErrXMPCallback,
                           <<Call("xmp", o, L, d1, NoHeader, remain, took, TRUE)>>, FALSE) }
                     \cup
                     { Out(d2, v,
                           <<Panicking(Call("xmp", o, L, d1, NoHeader, remain, took, FALSE), v)>>,
                           TRUE) : v \in PanicValues }
                     \cup
                     { Out(d3, d3.err,
                           <<Call("xmp", o, L, d1, NoHeader, remain, took, FALSE)>>, FALSE) :
                         d3 \in discard(d2, xmpRemain(remain, took)) }
                 : t \in Takes(remain) }
          : d1 \in discard(s, 4 + xmpPrefixLength) }

\* which reader readAPP1 hands the segment to
APP1Kind(o) ==
    IF isExifPrefix(o) THEN "APP1Exif"
    ELSE IF ~InCap(o, 33) THEN "APP1Panic"
    ELSE IF isXMPPrefix(o) THEN "APP1XMP"
    ELSE IF ~InCap(o, 38) THEN "APP1Panic"
    ELSE "APP1Ignore"

readAPP1(o, s) ==
    CASE APP1Kind(o) = "APP1Exif"   -> readExif(o, s)
      [] APP1Kind(o) = "APP1XMP"    -> readXMP(o, s)
      [] APP1Kind(o) = "APP1Ignore" -> ignoreMarker(o, s)
      [] OTHER -> {Out(s, ErrRuntime, <<>>, TRUE)}

\* the sofHeader readSOF parses: height buf[5:7], width buf[7:9], components buf[9]
ParseSOF(o) ==
    [height |-> At(o, 5) * 256 + At(o, 6),
     width |-> At(o, 7) * 256 + At(o, 8),
     components |-> At(o, 9)]

\* readSOF recording the header at every nesting level
recordSOF_Always(p, o, h) == ParseSOF(o)

\* jr.sofHeader after readSOF at jr.pos p, h being jr.sofHeader before it:
\* if jr.pos == 1 { jr.sofHeader = header }
recordSOF(p, o, h) == IF p = 1 THEN ParseSOF(o) ELSE h

readSOF(o, s) == Returned(discard(s, markerLength(o) + 2))

(***************************************************************************)
(* ScanJPEG.                                                               *)
(***************************************************************************)
NoSOF == [height |-> 0, width |-> 0, components |-> 0]

\* the resolver before any call: no Data, no walk, no goroutine
NoData == [made |-> FALSE]
NoWalk == [op |-> "none"]
NoRet == [op |-> "none"]
Running == [op |-> "running"]
ExifIdle ==
    /\ tiff = <<>>
    /\ exifData = NoData
    /\ walk = NoWalk
    /\ epc = "idle"
    /\ ret = NoRet
    /\ reads = 0
    /\ reparses = 0
    /\ gos = <<>>
\* DCT2D is not called
DCTIdle ==
    /\ dims = [w |-> 0, h |-> 0]
    /\ main = [pc |-> "idle", i |-> 0]
    /\ wg = 0
    /\ rowgs = <<>>
    /\ colgs = <<>>
Start == [op |-> "start", at |-> 0, disc |-> 0, len |-> 0, pos |-> 0]

Init ==
    /\ \E head \in Heads, items \in ItemSeqs, tail \in Tails :
         data = Flat(head \o items) \o tail
    /\ exifSet \in BOOLEAN
    /\ xmpSet \in BOOLEAN
    /\ br = 0
    /\ discarded = 0
    /\ pos = 0
    /\ sofHeader = NoSOF
    /\ err = NoErr
    /\ pc = "loop"
    /\ calls = <<>>
    /\ ioErr = NoErr
    /\ last = Start
    /\ ExifIdle
    /\ DCTIdle

S == [br |-> br, discarded |-> discarded]
Iter(op) == [op |-> op, at |-> br, disc |-> discarded, len |-> markerLength(br), pos |-> pos]

\* the iteration got its 16 bytes, and they start a marker other than SOI
\* while an image is open
InImage == pc = "loop" /\ peekOK(br, peekSize) /\ isMarkerFirstByte(br)
           /\ ~isSOIMarker(br) /\ pos > 0

\* the reader's error, once an operation of the iteration has met it
Raised(e) == IF e \in ReaderErrors THEN e ELSE ioErr

\* the iteration ends the scan: ScanJPEG returns e
Return(o, e) ==
    /\ br' = o.br
    /\ discarded' = o.discarded
    /\ err' = e
    /\ ioErr' = Raised(e)
    /\ pc' = "done"

\* the deferred function of ScanJPEG on the recovered value v: an error is
\* assigned to err and ScanJPEG returns; on any other value state.(error)
\* panics in its turn, and that panic leaves ScanJPEG
Recover(v) ==
    IF IsError(v) THEN [pc |-> "done", err |-> v] ELSE [pc |-> "panic", err |-> err]

\* the iteration ends with continue, or panics
Continue(o) ==
    /\ br' = o.br
    /\ discarded' = o.discarded
    /\ err' = IF o.panic THEN Recover(o.err).err ELSE o.err
    /\ ioErr' = Raised(o.err)
    /\ pc' = IF o.panic THEN Recover(o.err).pc ELSE "loop"

\* jr.peek(16) fails: ErrNoJPEGMarker
PeekFail ==
    /\ pc = "loop"
    /\ ~peekOK(br, peekSize)
    /\ \E e \in FailWith :
         /\ br' = br
         /\ discarded' = discarded
         /\ err' = ErrNoJPEGMarker
         /\ ioErr' = e
         /\ pc' = "done"
    /\ last' = Iter("PeekFail")
    /\ UNCHANGED <<data, exifSet, xmpSet, pos, sofHeader, calls>>
    /\ UNCHANGED evars
    /\ UNCHANGED dvars

\* not a marker: _ = jr.discard(1); continue
SkipByte ==
    /\ pc = "loop"
    /\ peekOK(br, peekSize)
    /\ ~isMarkerFirstByte(br)
    /\ \E d \in discard(S, 1) : Continue(Out(d, NoErr, <<>>, FALSE))
    /\ last' = Iter("SkipByte")
    /\ UNCHANGED <<data, exifSet, xmpSet, pos, sofHeader, calls>>
    /\ UNCHANGED evars
    /\ UNCHANGED dvars

\* SOI: jr.pos++; _ = jr.discard(2); continue
StartOfImage ==
    /\ pc = "loop"
    /\ peekOK(br, peekSize)
    /\ isSOIMarker(br)
    /\ pos' = U8(pos + 1)
    /\ \E d \in discard(S, 2) : Continue(Out(d, NoErr, <<>>, FALSE))
    /\ last' = Iter("SOI")
    /\ UNCHANGED <<data, exifSet, xmpSet, sofHeader, calls>>
    /\ UNCHANGED evars
    /\ UNCHANGED dvars

\* a marker other than SOI while jr.pos is 0: break
NoImage ==
    /\ pc = "loop"
    /\ peekOK(br, peekSize)
    /\ isMarkerFirstByte(br)
    /\ ~isSOIMarker(br)
    /\ pos = 0
    /\ Return(S, NoErr)
    /\ last' = Iter("NoImage")
    /\ UNCHANGED <<data, exifSet, xmpSet, pos, sofHeader, calls>>
    /\ UNCHANGED evars
    /\ UNCHANGED dvars

\* SOF0..SOF10: err = jr.readSOF(buf), then the loop is left
SOF ==
    /\ InImage
    /\ At(br, 1) \in SOFMarkers
    /\ sofHeader' = recordSOF(pos, br, sofHeader)
    /\ \E o \in readSOF(br, S) : Return(o, o.err)
    /\ last' = Iter("SOF")
    /\ UNCHANGED <<data, exifSet, xmpSet, pos, calls>>
    /\ UNCHANGED evars
    /\ UNCHANGED dvars

\* DHT at jr.pos 1: return ErrEndOfImage
DHTStop ==
    /\ InImage
    /\ At(br, 1) = markerDHT
    /\ pos = 1
    /\ Return(S, ErrEndOfImage)
    /\ last' = Iter("DHTStop")
    /\ UNCHANGED <<data, exifSet, xmpSet, pos, sofHeader, calls>>
    /\ UNCHANGED evars
    /\ UNCHANGED dvars

\* DHT at another jr.pos: err = jr.ignoreMarker(buf), then the loop is left
DHTNested ==
    /\ InImage
    /\ At(br, 1) = markerDHT
    /\ pos # 1
    /\ \E o \in ignoreMarker(br, S) : Return(o, o.err)
    /\ last' = Iter("DHTNested")
    /\ UNCHANGED <<data, exifSet, xmpSet, pos, sofHeader, calls>>
    /\ UNCHANGED evars
    /\ UNCHANGED dvars

\* EOI: jr.pos--; at jr.pos 1 return ErrEndOfImage, else err = jr.discard(2)
\* and the loop is left
EOI ==
    /\ InImage
    /\ At(br, 1) = markerEOI
    /\ pos' = U8(pos + 255)
    /\ IF pos' = 1
       THEN Return(S, ErrEndOfImage)
       ELSE \E d \in discard(S, 2) : Return(d, d.err)
    /\ last' = Iter("EOI")
    /\ UNCHANGED <<data, exifSet, xmpSet, sofHeader, calls>>
    /\ UNCHANGED evars
    /\ UNCHANGED dvars

\* DQT: err = jr.ignoreMarker(buf); continue
DQT ==
    /\ InImage
    /\ At(br, 1) = markerDQT
    /\ \E o \in ignoreMarker(br, S) : Continue(o)
    /\ last' = Iter("DQT")
    /\ UNCHANGED <<data, exifSet, xmpSet, pos, sofHeader, calls>>
    /\ UNCHANGED evars
    /\ UNCHANGED dvars

\* DRI: return jr.discard(6)
DRI ==
    /\ InImage
    /\ At(br, 1) = markerDRI
    /\ \E d \in discard(S, driDiscard) : Return(d, d.err)
    /\ last' = Iter("DRI")
    /\ UNCHANGED <<data, exifSet, xmpSet, pos, sofHeader, calls>>
    /\ UNCHANGED evars
    /\ UNCHANGED dvars

\* APP0: JFIF and JFXX discard jfifHeader(buf) + 2, others are ignored; continue
APP0 ==
    /\ InImage
    /\ At(br, 1) = markerAPP0
    /\ IF isJFIFPrefix(br) \/ isJFIFPrefixExt(br)
       THEN /\ \E d \in discard(S, jfifHeader(br) + 2) : Continue(Out(d, d.err, <<>>, FALSE))
            /\ last' = Iter("APP0JFIF")
       ELSE /\ \E o \in ignoreMarker(br, S) : Continue(o)
            /\ last' = Iter("APP0")
    /\ UNCHANGED <<data, exifSet, xmpSet, pos, sofHeader, calls>>
    /\ UNCHANGED evars
    /\ UNCHANGED dvars

\* APP1: err = jr.readAPP1(buf); continue
APP1 ==
    /\ InImage
    /\ At(br, 1) = markerAPP1
    /\ \E o \in readAPP1(br, S) :
         /\ Continue(o)
         /\ calls' = calls \o o.calls
    /\ last' = Iter(APP1Kind(br))
    /\ UNCHANGED <<data, exifSet, xmpSet, pos, sofHeader>>
    /\ UNCHANGED evars
    /\ UNCHANGED dvars

\* APP2, ICC profile or not: err = jr.ignoreMarker(buf); continue
APP2 ==
    /\ InImage
    /\ At(br, 1) = markerAPP2
    /\ \E o \in ignoreMarker(br, S) : Continue(o)
    /\ last' = Iter("APP2")
    /\ UNCHANGED <<data, exifSet, xmpSet, pos, sofHeader, calls>>
    /\ UNCHANGED evars
    /\ UNCHANGED dvars

\* APP7..APP10: return jr.ignoreMarker(buf)
APP7 ==
    /\ InImage
    /\ At(br, 1) \in APP7to10
    /\ \E o \in ignoreMarker(br, S) : Return(o, o.err)
    /\ last' = Iter("APP7")
    /\ UNCHANGED <<data, exifSet, xmpSet, pos, sofHeader, calls>>
    /\ UNCHANGED evars
    /\ UNCHANGED dvars

\* APP13, Photoshop or not: err = jr.ignoreMarker(buf); continue
APP13 ==
    /\ InImage
    /\ At(br, 1) = markerAPP13
    /\ \E o \in ignoreMarker(br, S) : Continue(o)
    /\ last' = Iter("APP13")
    /\ UNCHANGED <<data, exifSet, xmpSet, pos, sofHeader, calls>>
    /\ UNCHANGED evars
    /\ UNCHANGED dvars

\* APP14: return jr.ignoreMarker(buf)
APP14 ==
    /\ InImage
    /\ At(br, 1) = markerAPP14
    /\ \E o \in ignoreMarker(br, S) : Return(o, o.err)
    /\ last' = Iter("APP14")
    /\ UNCHANGED <<data, exifSet, xmpSet, pos, sofHeader, calls>>
    /\ UNCHANGED evars
    /\ UNCHANGED dvars

Handled ==
    SOFMarkers \cup APP7to10 \cup
    {markerDHT, markerSOI, markerEOI, markerDQT, markerDRI, markerAPP0,
     markerAPP1, markerAPP2, markerAPP13, markerAPP14}

\* the switch skipping a marker it has no case for, by its length
switchDefault_Ignore(o, s) == ignoreMarker(o, s)

\* the switch when no case matches the marker at o: nothing is discarded
\* and err keeps the nil of the peek
switchDefault(o, s) == {Out(s, NoErr, <<>>, FALSE)}

\* no case of the switch matches: break
Unhandled ==
    /\ InImage
    /\ At(br, 1) \notin Handled
    /\ \E o \in switchDefault(br, S) : Return(o, o.err)
    /\ last' = Iter("Unhandled")
    /\ UNCHANGED <<data, exifSet, xmpSet, pos, sofHeader, calls>>
    /\ UNCHANGED evars
    /\ UNCHANGED dvars

Next ==
    \/ PeekFail
    \/ SkipByte
    \/ StartOfImage
    \/ NoImage
    \/ SOF
    \/ DHTStop
    \/ DHTNested
    \/ EOI
    \/ DQT
    \/ DRI
    \/ APP0
    \/ APP1
    \/ APP2
    \/ APP7
    \/ APP13
    \/ APP14
    \/ Unhandled

Spec == Init /\ [][Next]_vars

\* ScanJPEG runs its loop until it returns: an iteration that can be made
\* is made
LiveSpec == Init /\ [][Next]_vars /\ WF_vars(Next)

(***************************************************************************)
(* The scanner on streams that hold one Exif and one XMP segment in the   *)
(* outermost image, in either order, with skipped segments before and     *)
(* between them, among them a stream whose Exif segment fills the first   *)
(* buffer-full of the bufio.Reader nearly to its end.                     *)
(***************************************************************************)
MaxSkipped == 1

SkippedKinds == {"JFIF", "JFXX", "DQT", "APP2", "APP13"}
SkippedSeqs == UNION {[1..n -> SkippedKinds] : n \in 0..MaxSkipped}
ExifKinds == {"EXIFII", "EXIFMM"}
Enders == {<<>>, <<"SOF0">>, <<"DHT">>, <<"EOI">>}

\* the segments of the outermost image up to the second of the two
OrderedItems ==
    { pre \o <<a>> \o mid \o <<b>> :
        pre \in SkippedSeqs, mid \in SkippedSeqs, a \in ExifKinds, b \in {"XMP"} }
    \cup
    { pre \o <<b>> \o mid \o <<a>> :
        pre \in SkippedSeqs, mid \in SkippedSeqs, a \in ExifKinds, b \in {"XMP"} }
    \cup {<<"EXIFBIG", "XMP">>}

OrderedStreams ==
    { Flat(<<"SOI">> \o s \o e) \o tail :
        s \in OrderedItems, e \in Enders, tail \in Tails }

\* the streams with at most one item after the head
ShortStreams ==
    { Flat(head \o items) \o tail :
        head \in Heads, items \in UNION {[1..n -> Kinds] : n \in 0..1}, tail \in Tails }

OrderInit ==
    /\ data \in ShortStreams \cup OrderedStreams
    /\ exifSet \in BOOLEAN
    /\ xmpSet \in BOOLEAN
    /\ br = 0
    /\ discarded = 0
    /\ pos = 0
    /\ sofHeader = NoSOF
    /\ err = NoErr
    /\ pc = "loop"
    /\ calls = <<>>
    /\ ioErr = NoErr
    /\ last = Start
    /\ ExifIdle
    /\ DCTIdle

OrderSpec == OrderInit /\ [][Next]_vars

(***************************************************************************)
(* The scanner on deeply nested streams: as many SOI markers as jr.pos,   *)
(* a uint8, has values, or one less, then one item.                        *)
(***************************************************************************)
MaxNesting == 256

\* n SOI markers
Nested(n) == [i \in 1..(2 * n) |-> IF i % 2 = 1 THEN markerFirstByte ELSE markerSOI]

NestedStreams ==
    { Nested(n) \o Flat(items) \o tail :
        n \in {MaxNesting - 1, MaxNesting},
        items \in UNION {[1..k -> Kinds] : k \in 0..1},
        tail \in Tails }

NestInit ==
    /\ data \in ShortStreams \cup NestedStreams
    /\ exifSet \in BOOLEAN
    /\ xmpSet \in BOOLEAN
    /\ br = 0
    /\ discarded = 0
    /\ pos = 0
    /\ sofHeader = NoSOF
    /\ err = NoErr
    /\ pc = "loop"
    /\ calls = <<>>
    /\ ioErr = NoErr
    /\ last = Start
    /\ ExifIdle
    /\ DCTIdle

NestSpec == NestInit /\ [][Next]_vars

(***************************************************************************)
(* The Exif resolver.  The TIFF block is a directory graph: the directory *)
(* at offset k holds one value tag, a pointer tag to the Exif sub-IFD at  *)
(* offset sub when sub is not 0, and the next-IFD offset next.            *)
(***************************************************************************)
MaxDirs == 2
MaxParseIfd == 1

ErrInvalidHeader == "ErrInvalidHeader"
ErrEmptyTag == "ErrEmptyTag"
ErrOverrun == "ErrOverrun"

NullIFD == "NullIFD"
IFD0 == "IFD0"
ExifIFD == "ExifIFD"
IfdTypes == {NullIFD, IFD0, ExifIFD}

Offsets == 1..MaxDirs
Blocks == [Offsets -> [sub : 0..MaxDirs, next : 0..MaxDirs]]

ByteOrders == {"nil", "BigEndian", "LittleEndian"}

\* meta.ExifHeader
ExifHeader(bo, firstIfd, firstIfdOffset, tiffHeaderOffset, exifLength) ==
    [byteOrder |-> bo, firstIfd |-> firstIfd, firstIfdOffset |-> firstIfdOffset,
     tiffHeaderOffset |-> tiffHeaderOffset, exifLength |-> exifLength]

\* the headers the entry points are called with: little-endian ones for
\* every first directory and first-IFD offset, the Exif length covering the
\* block; big-endian ones at another TIFF offset whose Exif length leaves
\* out the last directory; and ones without a byte order
Headers ==
    {ExifHeader("LittleEndian", ifd, o, 0, MaxDirs) : ifd \in IfdTypes, o \in Offsets}
    \cup {ExifHeader("BigEndian", ifd, 1, 1, MaxDirs - 1) : ifd \in {NullIFD, IFD0}}
    \cup {ExifHeader("nil", ifd, 1, 0, MaxDirs) : ifd \in {NullIFD, IFD0}}

\* header.IsValid(): the byte order is recognized and the offsets are not
\* negative
IsValid(header) ==
    /\ header.byteOrder # "nil"
    /\ header.firstIfdOffset >= 0
    /\ header.tiffHeaderOffset >= 0

\* tag.Tag: identifier, type, element count and the elements of the value
NewTag(id, type, count, elems) ==
    [id |-> id, type |-> type, count |-> count, elems |-> elems]
ZeroTag == NewTag("none", "none", 0, <<>>)
ValueTag == "ValueTag"
ExifIFDPointer == "ExifIFDPointer"
TagIDs == {ValueTag, ExifIFDPointer}

\* ifds.NewKey(ifd, ifdIndex, tagID) and ifds.NewIFD(ifd, index, offset)
NewKey(ifd, ifdIndex, tagID) == <<ifd, ifdIndex, tagID>>
NewIFD(ifd, index, offset) == [ifd |-> ifd, index |-> index, offset |-> offset]

\* newReader(r, header): the reader's byte order, Exif length and offset
newReader(header) ==
    [byteOrder |-> header.byteOrder, exifLength |-> header.exifLength,
     exifOffset |-> header.tiffHeaderOffset]

\* newData(reader, imageType): an empty tagMap
newData(reader) == [made |-> TRUE, reader |-> reader, tagMap |-> <<>>]

\* the tag records of the directory d = NewIFD(..) of the block
DirTags(d) ==
    LET dir == tiff[d.offset]
        v == (NewKey(d.ifd, d.index, ValueTag) :> NewTag(ValueTag, "Short", 1, <<d.offset>>))
    IN  IF dir.sub = 0 THEN v
        ELSE (NewKey(d.ifd, d.index, ExifIFDPointer)
                :> NewTag(ExifIFDPointer, "Long", 1, <<dir.sub>>)) @@ v

\* the directories the directory d links to: its Exif sub-IFD, with the
\* number of Exif directories seen as its index, then the next IFD of the
\* same kind with the next index
DirLinks(d, seen) ==
    LET dir == tiff[d.offset]
    IN  (IF dir.sub = 0 THEN <<>> ELSE <<NewIFD(ExifIFD, seen[ExifIFD], dir.sub)>>)
        \o (IF dir.next = 0 THEN <<>> ELSE <<NewIFD(d.ifd, d.index + 1, dir.next)>>)

\* reader.scanIFD(e, ifd) is called by the operation op
StartWalk(op, header, ifd) ==
    [op |-> op, header |-> header, stack |-> <<ifd>>, visited |-> {},
     scanned |-> <<>>, seen |-> [k \in IfdTypes |-> 0], err |-> NoErr]

\* the directory walk forgetting the offsets it has scanned
Revisit_Always(d, w) == FALSE

\* the walk w has scanned the directory d before
Revisit(d, w) == d.offset \in w.visited

\* the directory d does not lie within the Exif length of the reader
Overrun(d, reader) == d.offset \notin 1..reader.exifLength

\* ParseExif accepting every header
ParseExifRejects_Never(header) == FALSE

\* ParseExif: if !header.IsValid() { return nil, ErrInvalidHeader }
ParseExifRejects(header) == ~IsValid(header)

\* ParseIfd checking the validity of the header only
ParseIfdRejects_Valid(header) == ~IsValid(header)

\* ParseIfd: if !header.IsValid() || header.FirstIfd == ifds.NullIFD
ParseIfdRejects(header) == ~IsValid(header) \/ header.firstIfd = NullIFD

\* what a resolver operation returns, with the offsets its walk has scanned
\* and the directories scanned, in the order of the walk
Ret(op, header, val, error, visited, scanned) ==
    [op |-> op, header |-> header, val |-> val, err |-> error,
     visited |-> visited, scanned |-> scanned]

ExifInit ==
    /\ data = <<>>
    /\ exifSet = FALSE
    /\ xmpSet = FALSE
    /\ br = 0
    /\ discarded = 0
    /\ pos = 0
    /\ sofHeader = NoSOF
    /\ err = NoErr
    /\ pc = "loop"
    /\ calls = <<>>
    /\ ioErr = NoErr
    /\ last = Start
    /\ tiff \in Blocks
    /\ exifData = NoData
    /\ walk = NoWalk
    /\ epc = "idle"
    /\ ret = NoRet
    /\ reads = 0
    /\ reparses = 0
    /\ gos = <<>>
    /\ DCTIdle

\* ParseExif(r, header)
ParseExif ==
    /\ epc = "idle"
    /\ exifData = NoData
    /\ \E header \in Headers :
         IF ParseExifRejects(header)
         THEN /\ ret' = Ret("ParseExif", header, NoData, ErrInvalidHeader, {}, <<>>)
              /\ UNCHANGED <<exifData, walk, epc>>
         ELSE LET h == IF header.firstIfd = NullIFD
                       THEN [header EXCEPT !.firstIfd = IFD0] ELSE header
              IN  /\ exifData' = newData(newReader(h))
                  /\ walk' = StartWalk("ParseExif", header, NewIFD(h.firstIfd, 0, h.firstIfdOffset))
                  /\ epc' = "scan"
                  /\ ret' = Running
    /\ UNCHANGED <<tiff, reads, reparses, gos>>
    /\ UNCHANGED svars
    /\ UNCHANGED dvars

\* ParseIfd leaving the reader as the first parse seeded it
reseed_Keep(reader, header) == reader

\* e.reader.exifLength = header.ExifLength; e.reader.exifOffset =
\* header.TiffHeaderOffset; e.reader.byteOrder = header.ByteOrder
reseed(reader, header) ==
    [reader EXCEPT !.exifLength = header.exifLength,
                   !.exifOffset = header.tiffHeaderOffset,
                   !.byteOrder = header.byteOrder]

\* e.ParseIfd(header)
ParseIfd ==
    /\ epc = "idle"
    /\ exifData # NoData
    /\ reparses < MaxParseIfd
    /\ reparses' = reparses + 1
    /\ \E header \in Headers :
         IF ParseIfdRejects(header)
         THEN /\ ret' = Ret("ParseIfd", header, exifData, ErrInvalidHeader, {}, <<>>)
              /\ UNCHANGED <<exifData, walk, epc>>
         ELSE /\ exifData' = [exifData EXCEPT !.reader = reseed(@, header)]
              /\ walk' = StartWalk("ParseIfd", header,
                                   NewIFD(header.firstIfd, 0, header.firstIfdOffset))
              /\ epc' = "scan"
              /\ ret' = Running
    /\ UNCHANGED <<tiff, reads, gos>>
    /\ UNCHANGED svars
    /\ UNCHANGED dvars

\* the walk w goes on, or is over and the operation returns
Walked(w) ==
    IF w.stack = <<>> \/ w.err # NoErr
    THEN /\ walk' = NoWalk
         /\ epc' = "idle"
         /\ ret' = Ret(w.op, w.header, exifData', w.err, w.visited, w.scanned)
    ELSE /\ walk' = w
         /\ epc' = "scan"
         /\ UNCHANGED ret

\* reader.scanIFD on the next directory of the walk: a directory scanned
\* before is left alone, one beyond the Exif length is rejected, any other
\* is read, its tags are put in the tagMap and its links are followed
ScanDir ==
    /\ epc = "scan"
    /\ walk.stack # <<>>
    /\ LET d == Head(walk.stack)
           rest == Tail(walk.stack)
       IN  IF Revisit(d, walk)
           THEN /\ UNCHANGED <<exifData, reads>>
                /\ Walked([walk EXCEPT !.stack = rest])
           ELSE IF Overrun(d, exifData.reader)
           THEN /\ UNCHANGED <<exifData, reads>>
                /\ Walked([walk EXCEPT !.stack = rest, !.err = ErrOverrun])
           ELSE LET seen == [walk.seen EXCEPT ![d.ifd] = @ + 1]
                IN  /\ reads' = reads + 1
                    /\ exifData' = [exifData EXCEPT !.tagMap = DirTags(d) @@ @]
                    /\ Walked([walk EXCEPT
                                 !.stack = DirLinks(d, seen) \o rest,
                                 !.visited = @ \cup {d.offset},
                                 !.scanned = Append(@, d),
                                 !.seen = seen])
    /\ UNCHANGED <<tiff, reparses, gos>>
    /\ UNCHANGED svars
    /\ UNCHANGED dvars

\* what GetTag, GetTagValue and RangeTags return; map is e.tagMap at the call
GetRet(op, arg, val, error) ==
    [op |-> op, arg |-> arg, val |-> val, err |-> error, map |-> exifData.tagMap]

\* GetTag answering a missing key with the zero tag and no error
lookupTag_NoSignal(m, k) ==
    IF k \in DOMAIN m THEN [tag |-> m[k], err |-> NoErr]
    ELSE [tag |-> ZeroTag, err |-> NoErr]

\* if t, ok := e.tagMap[k]; ok { return t, nil }; return tag.Tag{}, ErrEmptyTag
lookupTag(m, k) ==
    IF k \in DOMAIN m THEN [tag |-> m[k], err |-> NoErr]
    ELSE [tag |-> ZeroTag, err |-> ErrEmptyTag]

\* the keys GetTag is asked for
Keys == {NewKey(ifd, i, id) : ifd \in {IFD0, ExifIFD}, i \in 0..1, id \in TagIDs}

\* e.GetTag(ifd, ifdIndex, tagID)
GetTag ==
    /\ epc = "idle"
    /\ exifData # NoData
    /\ \E k \in Keys :
         LET r == lookupTag(exifData.tagMap, k)
         IN  ret' = GetRet("GetTag", k, r.tag, r.err)
    /\ UNCHANGED <<tiff, exifData, walk, epc, reads, reparses, gos>>
    /\ UNCHANGED svars
    /\ UNCHANGED dvars

(***************************************************************************)
(* The values GetTagValue decodes: the tag records handed to it, and the  *)
(* parsers it calls, each returning a value and an error.                  *)
(***************************************************************************)
MaxCount == 2
asciiLimit == 64
ErrDecode == "ErrDecode"

TypeASCII == "ASCII"
TypeShort == "Short"
TypeLong == "Long"
TypeRational == "Rational"
TypeSignedRational == "SignedRational"
TypeUndefined == "Undefined"
NumericTypes == {TypeShort, TypeLong, TypeRational, TypeSignedRational}

\* the elements a value of the type may hold
Elems(type) ==
    CASE type = TypeRational -> {[num |-> 1, den |-> 2], [num |-> 1, den |-> 0]}
      [] type = TypeSignedRational -> {[num |-> -1, den |-> 2], [num |-> -1, den |-> 0]}
      [] OTHER -> {65}

\* the tag records GetTagValue is called with: every type with 0 to
\* MaxCount elements, and an ASCII value longer than asciiLimit
TagInputs ==
    UNION { { NewTag(ValueTag, type, Len(elems), elems) :
                elems \in UNION {[1..n -> Elems(type)] : n \in 0..MaxCount} } :
            type \in NumericTypes \cup {TypeASCII, TypeUndefined} }
    \cup {NewTag(ValueTag, TypeASCII, asciiLimit + 1, [i \in 1..(asciiLimit + 1) |-> 65])}

\* the values of GetTagValue: nil, a string, a scalar or a sequence
Value(shape, v) == [shape |-> shape, v |-> v]
Nil == Value("nil", 0)

Parsed(val, error) == [val |-> val, err |-> error]

\* e.ParseASCIIValue(t)
ParseASCIIValue(t) == Parsed(t.elems, NoErr)

\* e.ParseUint16Value(t): the single element
ParseUint16Value(t) ==
    IF t.count = 1 THEN Parsed(Value("scalar", t.elems[1]), NoErr)
    ELSE Parsed(Value("scalar", 0), ErrDecode)

\* e.ParseUint16Values(t): the elements in order
ParseUint16Values(t) == Parsed(Value("sequence", t.elems), NoErr)

\* e.ParseUint32Value(t): the single element
ParseUint32Value(t) ==
    IF t.count = 1 THEN Parsed(Value("scalar", t.elems[1]), NoErr)
    ELSE Parsed(Value("scalar", 0), ErrDecode)

\* e.ParseUint32Values(t): the elements in order
ParseUint32Values(t) == Parsed(Value("sequence", t.elems), NoErr)

\* e.ParseRationalValues(t): the elements in order; no element, or a
\* denominator 0, is an error
ParseRationalValues(t) ==
    IF t.count = 0 \/ \E i \in 1..t.count : t.elems[i].den = 0
    THEN Parsed(Value("sequence", <<>>), ErrDecode)
    ELSE Parsed(Value("sequence", t.elems), NoErr)

\* e.ParseSRationalValues(t): the same for signed elements
ParseSRationalValues(t) ==
    IF t.count = 0 \/ \E i \in 1..t.count : t.elems[i].den = 0
    THEN Parsed(Value("sequence", <<>>), ErrDecode)
    ELSE Parsed(Value("sequence", t.elems), NoErr)

\* the parser GetTagValue calls for the tag t, and what it returns
ParsedBy(t) ==
    CASE t.type = TypeASCII -> ParseASCIIValue(t)
      [] t.type = TypeShort ->
            IF t.count > 1 THEN ParseUint16Values(t) ELSE ParseUint16Value(t)
      [] t.type = TypeLong ->
            IF t.count > 1 THEN ParseUint32Values(t) ELSE ParseUint32Value(t)
      [] t.type = TypeRational -> ParseRationalValues(t)
      [] t.type = TypeSignedRational -> ParseSRationalValues(t)
      [] OTHER -> Parsed(Nil, NoErr)

\* the value e.GetTagValue(t) returns: the value of the parser, its error
\* dropped (value, _ = ...); a string is cut to asciiLimit
GetTagValueOf(t) ==
    IF t.type = TypeASCII
    THEN LET str == ParsedBy(t).val
         IN  Value("string", IF Len(str) > asciiLimit THEN SubSeq(str, 1, asciiLimit) ELSE str)
    ELSE ParsedBy(t).val

\* e.GetTagValue(t): one result, the value
GetTagValue ==
    /\ epc = "idle"
    /\ exifData # NoData
    /\ \E t \in TagInputs : ret' = GetRet("GetTagValue", t, GetTagValueOf(t), NoErr)
    /\ UNCHANGED <<tiff, exifData, walk, epc, reads, reparses, gos>>
    /\ UNCHANGED svars
    /\ UNCHANGED dvars

(***************************************************************************)
(* RangeTags and the goroutine it starts.                                  *)
(***************************************************************************)
MaxRange == 1

\* the goroutine go func() { for _, t := range e.tagMap { c <- t }; close(c) }()
\* started on the map with the keys snap: the keys it has sent, and whether
\* it has closed the channel and ended; with it the receiver of the channel:
\* the number of tags it has received and whether it has stopped receiving;
\* born is the number of ParseIfd calls made when the goroutine started
Goroutine(snap) ==
    [snap |-> snap, sent |-> {}, exited |-> FALSE,
     count |-> 0, stopped |-> FALSE, born |-> reparses]

\* the range loop ending at any time
rangeDone_Early(g) == TRUE

\* for _, t := range e.tagMap is over: every key the map held when the
\* loop began was produced
rangeDone(g) == g.snap \subseteq g.sent

\* e.RangeTags(): makes the channel, starts the goroutine and returns the
\* channel
RangeTags ==
    /\ epc = "idle"
    /\ exifData # NoData
    /\ Len(gos) < MaxRange
    /\ gos' = Append(gos, Goroutine(DOMAIN exifData.tagMap))
    /\ ret' = GetRet("RangeTags", <<>>, Len(gos) + 1, NoErr)
    /\ UNCHANGED <<tiff, exifData, walk, epc, reads, reparses>>
    /\ UNCHANGED svars
    /\ UNCHANGED dvars

\* c <- t: the goroutine i hands a tag it has not sent yet to the receiver,
\* which is receiving (the channel has no buffer)
Send ==
    /\ \E i \in DOMAIN gos :
         /\ ~gos[i].exited
         /\ ~gos[i].stopped
         /\ \E k \in DOMAIN exifData.tagMap \ gos[i].sent :
              gos' = [gos EXCEPT ![i].sent = @ \cup {k}, ![i].count = @ + 1]
    /\ UNCHANGED <<tiff, exifData, walk, epc, ret, reads, reparses>>
    /\ UNCHANGED svars
    /\ UNCHANGED dvars

\* close(c): the range is over, every key the map held when it began was
\* sent; the goroutine ends
Close ==
    /\ \E i \in DOMAIN gos :
         /\ ~gos[i].exited
         /\ rangeDone(gos[i])
         /\ gos' = [gos EXCEPT ![i].exited = TRUE]
    /\ UNCHANGED <<tiff, exifData, walk, epc, ret, reads, reparses>>
    /\ UNCHANGED svars
    /\ UNCHANGED dvars

\* the receiver of the channel of the goroutine i receives no more
StopReceiving ==
    /\ \E i \in DOMAIN gos :
         /\ ~gos[i].exited
         /\ ~gos[i].stopped
         /\ gos' = [gos EXCEPT ![i].stopped = TRUE]
    /\ UNCHANGED <<tiff, exifData, walk, epc, ret, reads, reparses>>
    /\ UNCHANGED svars
    /\ UNCHANGED dvars

ExifNext ==
    \/ ParseExif
    \/ ParseIfd
    \/ ScanDir
    \/ GetTag
    \/ GetTagValue

ResolveNext ==
    \/ ParseExif
    \/ ParseIfd
    \/ ScanDir

\* the resolver alone; a walk that has begun goes on until it returns
ResolveSpec == ExifInit /\ [][ResolveNext]_vars /\ WF_vars(ScanDir)

\* the resolver and its accessors, called one after the other
ExifSpec == ExifInit /\ [][ExifNext]_vars

RangeNext ==
    \/ ParseExif
    \/ ParseIfd
    \/ ScanDir
    \/ RangeTags
    \/ Send
    \/ Close
    \/ StopReceiving

\* the resolver and RangeTags, with the goroutines RangeTags starts
RangeSpec == ExifInit /\ [][RangeNext]_vars

\* the same, with the scheduling of Go: a walk that has begun goes on, a
\* goroutine that can send to a receiver that is receiving does so, and one
\* whose loop is over closes the channel
RangeLiveSpec ==
    ExifInit /\ [][RangeNext]_vars
        /\ WF_vars(ScanDir) /\ WF_vars(Send) /\ WF_vars(Close)

(***************************************************************************)
(* DCT2D.  The input is h rows of w cells, each row an array of its own.  *)
(* DCT1D transforms its argument in place and returns it, so that after   *)
(* output[i] = DCT1D(input[i]) the row slot output[i] refers to the array *)
(* of input[i]: the cell (r, c) is the cell c of that array.  A step of a *)
(* goroutine is one statement or one iteration of an inner loop, with the *)
(* slots and cells it reads and writes.                                    *)
(***************************************************************************)
MaxW == 2
MaxH == 2

Rows == 0..(dims.h - 1)
Cols == 0..(dims.w - 1)

\* an access to the row slot output[r] or to the cell output[r][c]
Slot(r) == <<"slot", r>>
Cell(r, c) == <<"cell", r, c>>
Acc(loc, write) == [loc |-> loc, write |-> write]

\* wg.Wait() returning at once
waitDone_Always(n) == TRUE

\* wg.Wait() returns when the counter is zero
waitDone(n) == n = 0

\* what the next step of the row goroutine i accesses: DCT1D(input[i])
\* reads and writes the cells of its row, the assignment writes output[i]
RowAccess(i) ==
    CASE rowgs[i] = "transform" -> {Acc(Cell(i, c), TRUE) : c \in Cols}
      [] rowgs[i] = "assign" -> {Acc(Slot(i), TRUE)}
      [] OTHER -> {}

\* what the next step of the column goroutine i accesses: in[j] =
\* output[j][i] reads the slot j and the cell (j, i), DCT1D(in) works on
\* the goroutine's own array, output[j][i] = rows[j] reads the slot j and
\* writes the cell (j, i)
ColAccess(i) ==
    CASE colgs[i].pc = "gather" ->
            {Acc(Slot(colgs[i].j), FALSE), Acc(Cell(colgs[i].j, i), FALSE)}
      [] colgs[i].pc = "scatter" ->
            {Acc(Slot(colgs[i].j), FALSE), Acc(Cell(colgs[i].j, i), TRUE)}
      [] OTHER -> {}

\* what the next step of the calling goroutine accesses: it makes the rows
\* of output, and in the end hands output to its caller, who reads it
MainAccess ==
    CASE main.pc = "alloc" -> {Acc(Slot(r), TRUE) : r \in Rows}
      [] main.pc = "return" ->
            {Acc(Slot(r), FALSE) : r \in Rows}
                \cup {Acc(Cell(r, c), FALSE) : r \in Rows, c \in Cols}
      [] OTHER -> {}

DCTInit ==
    /\ data = <<>>
    /\ exifSet = FALSE
    /\ xmpSet = FALSE
    /\ br = 0
    /\ discarded = 0
    /\ pos = 0
    /\ sofHeader = NoSOF
    /\ err = NoErr
    /\ pc = "loop"
    /\ calls = <<>>
    /\ ioErr = NoErr
    /\ last = Start
    /\ ExifIdle
    /\ dims \in [w : 1..MaxW, h : 1..MaxH]
    /\ main = [pc |-> "alloc", i |-> 0]
    /\ wg = 0
    /\ rowgs = [i \in Rows |-> "none"]
    /\ colgs = [i \in Cols |-> [pc |-> "none", j |-> 0]]

\* output := make([][]float64, h); for i := range output { output[i] = make(..) }
MakeOutput ==
    /\ main.pc = "alloc"
    /\ main' = [pc |-> "rows", i |-> 0]
    /\ UNCHANGED <<dims, wg, rowgs, colgs>>
    /\ UNCHANGED <<svars, evars>>

\* for i := 0; i < h; i++ { wg.Add(1); go func(i int) {...}(i) }
GoRow ==
    /\ main.pc = "rows"
    /\ wg' = wg + 1
    /\ rowgs' = [rowgs EXCEPT ![main.i] = "transform"]
    /\ main' = IF main.i + 1 < dims.h THEN [main EXCEPT !.i = @ + 1]
                ELSE [pc |-> "wait1", i |-> 0]
    /\ UNCHANGED <<dims, colgs>>
    /\ UNCHANGED <<svars, evars>>

\* the row goroutine i: output[i] = DCT1D(input[i]); wg.Done()
RowRun ==
    /\ \E i \in Rows :
         CASE rowgs[i] = "transform" ->
                /\ rowgs' = [rowgs EXCEPT ![i] = "assign"]
                /\ UNCHANGED wg
           [] rowgs[i] = "assign" ->
                /\ rowgs' = [rowgs EXCEPT ![i] = "done"]
                /\ UNCHANGED wg
           [] rowgs[i] = "done" ->
                /\ rowgs' = [rowgs EXCEPT ![i] = "exited"]
                /\ wg' = wg - 1
           [] OTHER -> FALSE
    /\ UNCHANGED <<dims, main, colgs>>
    /\ UNCHANGED <<svars, evars>>

\* the first wg.Wait()
WaitRows ==
    /\ main.pc = "wait1"
    /\ waitDone(wg)
    /\ main' = [pc |-> "cols", i |-> 0]
    /\ UNCHANGED <<dims, wg, rowgs, colgs>>
    /\ UNCHANGED <<svars, evars>>

\* for i := 0; i < w; i++ { wg.Add(1); in := make(..); go func(i int) {...}(i) }
GoCol ==
    /\ main.pc = "cols"
    /\ wg' = wg + 1
    /\ colgs' = [colgs EXCEPT ![main.i] = [pc |-> "gather", j |-> 0]]
    /\ main' = IF main.i + 1 < dims.w THEN [main EXCEPT !.i = @ + 1]
                ELSE [pc |-> "wait2", i |-> 0]
    /\ UNCHANGED <<dims, rowgs>>
    /\ UNCHANGED <<svars, evars>>

\* the column goroutine i: the loop over in[j] = output[j][i], then
\* rows := DCT1D(in), then the loop over output[j][i] = rows[j], then
\* wg.Done()
ColRun ==
    /\ \E i \in Cols :
         LET g == colgs[i]
         IN  CASE g.pc = "gather" ->
                    /\ colgs' = [colgs EXCEPT ![i] =
                                    IF g.j + 1 < dims.h THEN [g EXCEPT !.j = @ + 1]
                                    ELSE [pc |-> "transform", j |-> 0]]
                    /\ UNCHANGED wg
               [] g.pc = "transform" ->
                    /\ colgs' = [colgs EXCEPT ![i] = [pc |-> "scatter", j |-> 0]]
                    /\ UNCHANGED wg
               [] g.pc = "scatter" ->
                    /\ colgs' = [colgs EXCEPT ![i] =
                                    IF g.j + 1 < dims.h THEN [g EXCEPT !.j = @ + 1]
                                    ELSE [pc |-> "done", j |-> 0]]
                    /\ UNCHANGED wg
               [] g.pc = "done" ->
                    /\ colgs' = [colgs EXCEPT ![i] = [pc |-> "exited", j |-> 0]]
                    /\ wg' = wg - 1
               [] OTHER -> FALSE
    /\ UNCHANGED <<dims, main, rowgs>>
    /\ UNCHANGED <<svars, evars>>

\* the second wg.Wait()
WaitCols ==
    /\ main.pc = "wait2"
    /\ waitDone(wg)
    /\ main' = [pc |-> "return", i |-> 0]
    /\ UNCHANGED <<dims, wg, rowgs, colgs>>
    /\ UNCHANGED <<svars, evars>>

\* return output
ReturnOutput ==
    /\ main.pc = "return"
    /\ main' = [pc |-> "returned", i |-> 0]
    /\ UNCHANGED <<dims, wg, rowgs, colgs>>
    /\ UNCHANGED <<svars, evars>>

DCTNext ==
    \/ MakeOutput
    \/ GoRow
    \/ RowRun
    \/ WaitRows
    \/ GoCol
    \/ ColRun
    \/ WaitCols
    \/ ReturnOutput

DCTSpec == DCTInit /\ [][DCTNext]_vars

(***************************************************************************)
(* Properties.                                                             *)
(***************************************************************************)
Done == pc = "done"

\* the stream holds the whole segment the last iteration classified: its
\* marker code and the declared length
SegmentPresent == Len(data) >= last.at + 2 + last.len

\* the callback invocation made by the last iteration, if it made one
LastCall == calls[Len(calls)]
LastCalled == calls # <<>> /\ LastCall.marker = last.at

\* the well-formed segments that are neither SOI, EOI nor Exif
PlainKinds ==
    {"SOF0", "DHT", "DQT", "DRI", "JFIF", "JFXX", "XMP", "APP1", "APP2",
     "APP7", "APP13", "APP14", "COM"}

\* the JPEG streams with exactly one SOI/EOI pair and no Exif segment
OnePairStreams ==
    { Flat(<<"SOI">> \o mid \o <<"EOI">>) \o tail :
        mid \in UNION {[1..n -> PlainKinds] : n \in 0..MaxItems},
        tail \in Tails }

\* C1: for every JPEG stream with exactly one outermost SOI/EOI pair and no
\* Exif segment, ScanJPEG returns ErrEndOfImage and has invoked neither the
\* Exif nor the XMP callback.
C1_OnePairEndsWithEndOfImage ==
    (Done /\ data \in OnePairStreams) => (err = ErrEndOfImage /\ calls = <<>>)

\* C2: when the scan meets a DHT marker at nesting 1 it stops there: it
\* returns ErrEndOfImage, the discarded count is the offset of the DHT
\* marker, no byte of the DHT segment is consumed and no callback was
\* invoked for the DHT marker or anything after it.
C2_DHTStopsAtMarker ==
    last.op = "DHTStop" =>
        /\ Done
        /\ err = ErrEndOfImage
        /\ br = last.at
        /\ discarded = last.at
        /\ \A i \in DOMAIN calls : calls[i].marker < last.at

\* C3: after readExif has handled a matched Exif segment of declared length
\* L, held in full by the stream, the stream is positioned at the first byte
\* after the segment (marker + 2 + L), whether the Exif callback is nil or
\* returned without error having read none, some or all of the TIFF block.
C3_ExifLeavesStreamAfterSegment ==
    (last.op = "APP1Exif" /\ last.len >= exifPrefixLength /\ SegmentPresent
        /\ err = NoErr /\ pc = "loop")
    => br = last.at + 2 + last.len

\* the byte order a byte-order mark names
MarkOrder(o) ==
    IF At(o, 0) = 77 /\ At(o, 1) = 77 THEN "BigEndian"
    ELSE IF At(o, 0) = 73 /\ At(o, 1) = 73 THEN "LittleEndian"
    ELSE "unknown"

\* the 4 bytes at offset o + 4 read in the byte order bo, as 16-bit halves
OffsetField(bo, o) ==
    IF bo = "BigEndian"
    THEN [hi |-> At(o, 4) * 256 + At(o, 5), lo |-> At(o, 6) * 256 + At(o, 7)]
    ELSE [hi |-> At(o, 7) * 256 + At(o, 6), lo |-> At(o, 5) * 256 + At(o, 4)]

\* C4: every invocation of the Exif callback, for a segment of declared
\* length L >= 8 whose byte-order mark is II or MM, is made with the stream
\* at the byte-order mark (marker + 10) and with a header whose byte order
\* is the one the mark names, whose first-IFD offset is the 4 bytes at TIFF
\* offset 4 in that order, whose length is L - 8 and whose TIFF origin is
\* the absolute position marker + 10.
C4_ExifHeaderDescribesSegment ==
    \A i \in DOMAIN calls :
        LET c == calls[i]
        IN  (c.cb = "exif" /\ c.len >= exifPrefixLength
                /\ MarkOrder(c.marker + 10) # "unknown")
            => /\ c.at = c.marker + 10
               /\ c.header.byteOrder = MarkOrder(c.marker + 10)
               /\ c.header.firstIfdOffset = OffsetField(MarkOrder(c.marker + 10), c.marker + 10)
               /\ c.header.exifLength = [hi |-> 0, lo |-> c.len - 8]
               /\ c.header.tiffHeaderOffset = c.marker + 10

\* what C5 says of the XMP segment the last iteration handled: the callback
\* got a reader at the first payload byte (marker + 33), limited to L - 31
\* bytes, read no more than that, and when it returned without error the
\* stream is at the first byte after the segment
XMPHandled ==
    /\ LastCalled
    /\ LastCall.cb = "xmp"
    /\ LastCall.at = last.at + 33
    /\ LastCall.limit = last.len - 31
    /\ LastCall.took <= last.len - 31
    /\ (~LastCall.failed /\ LastCall.panic = NoPanic)
         => (br = last.at + 2 + last.len /\ pc = "loop")

CallbackErr(c) == IF c.cb = "exif" THEN ErrExifCallback ELSE ErrXMPCallback

\* C6: when a callback has returned a failure, ScanJPEG returns that error,
\* the failing invocation is the last one and no byte was consumed after it.
C6_CallbackFailureUnwinds ==
    Done =>
        \A i \in DOMAIN calls :
            calls[i].failed =>
                /\ err = CallbackErr(calls[i])
                /\ i = Len(calls)
                /\ br = calls[i].at + calls[i].took

\* C7: when the underlying reader has raised an I/O failure during the
\* scan, on a peek or on a discard, ScanJPEG returns that error.
C7_IOFailureReturnedUnchanged ==
    (Done /\ ioErr = ErrIO) => err = ErrIO

\* the stream nowhere holds the start-of-image signature 0xFF 0xD8
NoSOI ==
    \A i \in 1..(Len(data) - 1) :
        ~(data[i] = markerFirstByte /\ data[i + 1] = markerSOI)

\* C8: for a stream without the start-of-image signature ScanJPEG returns
\* ErrNoJPEGMarker and invokes no callback.
C8_NoSOIGivesNoJPEGMarker ==
    (Done /\ NoSOI) => (err = ErrNoJPEGMarker /\ calls = <<>>)

\* the branches that skip a length-carrying segment without a callback
SkipOps ==
    {"SOF", "DHTNested", "DQT", "DRI", "APP2", "APP7", "APP13", "APP14", "APP1Ignore"}

\* C9: every branch that skips a length-carrying segment without a callback
\* advances the cursor by exactly 2 + L bytes, L the declared length of the
\* segment (which the stream holds in full).
C9_SkipAdvancesByDeclaredLength ==
    (last.op \in SkipOps /\ SegmentPresent)
    => (br = last.at + 2 + last.len /\ discarded = last.disc + 2 + last.len)

\* C10: at every marker classification the discarded count is the number
\* of bytes consumed from the stream since the scan started.
C10_DiscardedIsStreamPosition ==
    pc = "loop" => discarded = br

\* C11: a panic raised while ScanJPEG is running never leaves ScanJPEG:
\* whatever the panic value is, ScanJPEG returns, and returns an error.
C11_PanicBecomesError ==
    /\ pc # "panic"
    /\ (LastCalled /\ LastCall.panic # NoPanic) => (Done /\ err # NoErr)

\* C19: on an EOI marker the nesting counter is decremented; when the EOI
\* closes the outermost SOI (the counter was 1) ScanJPEG returns
\* ErrEndOfImage, and when it closes a nested SOI the 2 marker bytes are
\* consumed and the scan goes on with the next marker.
C19_EOIClosesOrContinues ==
    last.op = "EOI" =>
        /\ pos = U8(last.pos + 255)
        /\ last.pos = 1 => (Done /\ err = ErrEndOfImage)
        /\ last.pos > 1 => (br = last.at + 2 /\ pc = "loop")

\* C20: the image-size record is that of the first SOF segment processed at
\* nesting 1, and no other SOF changes it.  ScanJPEG returns right after a
\* SOF segment, so while the scan goes on no SOF was processed and the
\* record is empty, and at the end the record is that of the SOF segment
\* just processed if the nesting was 1, and empty otherwise.
C20_SOFRecordedAtNestingOne ==
    /\ pc = "loop" => (last.op # "SOF" /\ sofHeader = NoSOF)
    /\ pc # "loop" =>
         sofHeader = IF last.op = "SOF" /\ last.pos = 1 THEN ParseSOF(last.at) ELSE NoSOF

\* C20 witness: a SOF segment was processed at nesting 1 and its values
\* recorded
C20_Witness ==
    /\ Done
    /\ last.op = "SOF"
    /\ last.pos = 1
    /\ sofHeader = ParseSOF(last.at)
    /\ sofHeader # NoSOF

\* a SOF segment was processed at nesting 2 and nothing was recorded
C20_NestedSOF ==
    /\ Done
    /\ last.op = "SOF"
    /\ last.pos = 2
    /\ ParseSOF(last.at) # NoSOF
    /\ sofHeader = NoSOF

\* C12: ParseExif called with a header that is not valid returns
\* ErrInvalidHeader and a nil result, and resolution never starts: no Data
\* and no reader is built, no directory is scanned and no read is issued.
C12_InvalidHeaderNeverResolved ==
    (ret.op = "ParseExif" /\ ~IsValid(ret.header)) =>
        /\ ret.err = ErrInvalidHeader
        /\ ret.val = NoData
        /\ ret.visited = {}
        /\ exifData = NoData
        /\ epc = "idle"
        /\ reads = 0

\* C12 witness: ParseExif has returned for a header without a byte order
C12_Witness ==
    /\ ret.op = "ParseExif"
    /\ ~IsValid(ret.header)
    /\ ret.err = ErrInvalidHeader

\* C13 as stated: ParseExif and ParseIfd both fail with ErrInvalidHeader,
\* without walking any directory, when the first-directory designator of the
\* header is NullIFD.
C13_NullIFDRejectedByBoth ==
    (ret.op \in {"ParseExif", "ParseIfd"} /\ ret.header.firstIfd = NullIFD) =>
        (ret.err = ErrInvalidHeader /\ ret.visited = {})

\* C13 (amended): ParseIfd fails with ErrInvalidHeader, without walking any
\* directory, when the designator is NullIFD; ParseExif, for a valid header
\* whose designator is NullIFD, does not fail with ErrInvalidHeader but
\* resolves the first directory as IFD0: the directory at the first-IFD
\* offset, when it lies within the Exif length, is scanned and its tags are
\* in the TagMap under (IFD0, 0).
C13_NullIFDRejectedByParseIfd ==
    /\ (ret.op = "ParseIfd" /\ ret.header.firstIfd = NullIFD) =>
          (ret.err = ErrInvalidHeader /\ ret.visited = {})
    /\ (ret.op = "ParseExif" /\ IsValid(ret.header) /\ ret.header.firstIfd = NullIFD) =>
          /\ ret.err # ErrInvalidHeader
          /\ ret.val = exifData
          /\ ret.header.firstIfdOffset <= ret.header.exifLength =>
                /\ ret.header.firstIfdOffset \in ret.visited
                /\ NewKey(IFD0, 0, ValueTag) \in DOMAIN exifData.tagMap

\* C13 witness: both cases have happened, ParseExif resolving a header with
\* the designator NullIFD and, after it, ParseIfd rejecting one
C13_Witness ==
    /\ ret.op = "ParseIfd"
    /\ IsValid(ret.header)
    /\ ret.header.firstIfd = NullIFD
    /\ ret.err = ErrInvalidHeader
    /\ NewKey(IFD0, 0, ValueTag) \in DOMAIN exifData.tagMap

\* C14: GetTag for a key that resolution never inserted returns the zero
\* tag and ErrEmptyTag; for a key that was inserted it returns the stored
\* tag and no error; either way the TagMap is as it was at the call.
C14_GetTagLookup ==
    ret.op = "GetTag" =>
        /\ exifData.tagMap = ret.map
        /\ IF ret.arg \in DOMAIN ret.map
           THEN ret.val = ret.map[ret.arg] /\ ret.err = NoErr
           ELSE ret.val = ZeroTag /\ ret.err = ErrEmptyTag

\* C14 witness: GetTag has missed a key in a TagMap that holds other keys
C14_Witness ==
    /\ ret.op = "GetTag"
    /\ ret.map # <<>>
    /\ ret.arg \notin DOMAIN ret.map
    /\ ret.err = ErrEmptyTag

\* GetTag has found a key
C14_Hit ==
    /\ ret.op = "GetTag"
    /\ ret.arg \in DOMAIN ret.map
    /\ ret.val # ZeroTag
    /\ ret.err = NoErr

\* C15: when the value of the tag handed to GetTagValue cannot be decoded
\* (the parser fails: no element where one is needed, a rational with
\* denominator 0), the decode error is reported to the caller, and the
\* TagMap is as it was at the call.
C15_DecodeErrorReported ==
    (ret.op = "GetTagValue" /\ ParsedBy(ret.arg).err # NoErr) =>
        /\ ret.err = ParsedBy(ret.arg).err
        /\ exifData.tagMap = ret.map

\* C16: for the types short, long, rational and signed rational the shape
\* of the value GetTagValue produces follows from the element count: a
\* scalar for count 1, an ordered sequence for a count above 1.
C16_ShapeFollowsCount ==
    (ret.op = "GetTagValue" /\ ret.arg.type \in NumericTypes
        /\ ParsedBy(ret.arg).err = NoErr) =>
        /\ ret.arg.count = 1 => ret.val.shape = "scalar"
        /\ ret.arg.count > 1 => ret.val.shape = "sequence"

\* C17: when RangeTags has returned, the goroutine it started is neither
\* running nor blocked: it has ended.  (The other operations start none.)
C17_NoBackgroundWork ==
    ret.op = "RangeTags" => gos[ret.val].exited

\* what C18 says of the walk a returned ParseExif or ParseIfd has made: no
\* offset was scanned twice, and the TagMap holds the tags of every
\* directory scanned
WalkKept ==
    /\ \A i, j \in DOMAIN ret.scanned :
          ret.scanned[i].offset = ret.scanned[j].offset => i = j
    /\ \A i \in DOMAIN ret.scanned :
          DOMAIN DirTags(ret.scanned[i]) \subseteq DOMAIN exifData.tagMap

\* C18: the resolution ParseExif or ParseIfd starts terminates on every
\* directory graph, also one in which a next-IFD or sub-IFD pointer leads
\* back to an offset already scanned, and the TagMap then holds the entries
\* collected.
C18_ResolutionTerminates ==
    /\ [](ret.op \in {"ParseExif", "ParseIfd"} => WalkKept)
    /\ (epc = "scan") ~> (epc = "idle")

\* C18 witness: a resolution has returned from a graph in which the first
\* directory is its own next IFD and the sub-IFD points back to the first
C18_Witness ==
    /\ ret.op = "ParseExif"
    /\ ret.err = NoErr
    /\ Len(ret.scanned) = 2
    /\ tiff[ret.scanned[1].offset].next = ret.scanned[1].offset
    /\ tiff[ret.scanned[2].offset].sub = ret.scanned[1].offset

\* C21: an APP0 segment that carries the JFIF or the JFXX signature, held
\* in full by the stream, is skipped by discarding its declared length plus
\* the 2 marker bytes: the next classification starts at the first byte
\* after the segment.
C21_APP0SkippedWhole ==
    (last.op = "APP0JFIF" /\ SegmentPresent) =>
        (br = last.at + 2 + last.len /\ discarded = last.disc + 2 + last.len /\ pc = "loop")

\* a JFIF APP0 segment was skipped whole
C21_JFIFSkipped ==
    /\ last.op = "APP0JFIF"
    /\ isJFIFPrefix(last.at)
    /\ SegmentPresent
    /\ br = last.at + 2 + last.len

ExifSegments ==
    {o \in 0..(Len(data) - 1) :
        At(o, 0) = markerFirstByte /\ At(o, 1) = markerAPP1 /\ isExifPrefix(o)}
XMPSegments ==
    {o \in 0..(Len(data) - 1) :
        At(o, 0) = markerFirstByte /\ At(o, 1) = markerAPP1 /\ isXMPPrefix(o)}

\* the callback invocation c read its whole segment and returned nil
WholeCall(c) ==
    /\ ~c.failed
    /\ c.panic = NoPanic
    /\ c.took = IF c.cb = "exif" THEN c.len - exifPrefixLength
                ELSE c.len - 2 - xmpPrefixLength

\* each callback was invoked once, for its segment, in the order of the
\* segments in the stream
OnceInOrder ==
    /\ Len(calls) = 2
    /\ calls[1].marker < calls[2].marker
    /\ {calls[i].marker : i \in {j \in DOMAIN calls : calls[j].cb = "exif"}} = ExifSegments
    /\ {calls[i].marker : i \in {j \in DOMAIN calls : calls[j].cb = "xmp"}} = XMPSegments

\* C23: for a stream whose outermost image holds, before any SOF, DHT or
\* EOI, one Exif and one XMP APP1 segment, in either order and with skipped
\* segments around them, ScanJPEG invokes each callback exactly once, in the
\* order of the segments in the stream, when each callback reads its whole
\* segment and returns nil.
C23_CallbacksOnceInOrder ==
    (Done /\ data \in OrderedStreams /\ exifSet /\ xmpSet
        /\ \A i \in DOMAIN calls : WholeCall(calls[i]))
    => OnceInOrder

\* the same for the streams whose second segment starts at least 33 bytes
\* before the end of the first buffer-full
C23_WithinBuffer ==
    (Done /\ data \in OrderedStreams /\ exifSet /\ xmpSet
        /\ Len(data) < bufferSize - 33
        /\ \A i \in DOMAIN calls : WholeCall(calls[i]))
    => OnceInOrder

\* an XMP and an Exif segment with a JFXX segment between them were handed
\* to the callbacks in that order
C23_BothCalled ==
    /\ Done
    /\ data \in OrderedStreams
    /\ OnceInOrder
    /\ calls[1].cb = "xmp"
    /\ \A i \in DOMAIN calls : WholeCall(calls[i])
    /\ \E o \in 0..Len(data) : At(o, 1) = markerAPP0 /\ isJFIFPrefixExt(o)
                                   /\ o > calls[1].marker /\ o < calls[2].marker

\* the header of the ParseIfd call a step has made
ParseIfdHeader == IF epc' = "scan" THEN walk'.header ELSE ret'.header

\* C24: ParseIfd can be called again on the same Data.  With a valid header
\* whose first directory is not NullIFD it sets the reader's byte order,
\* Exif length and TIFF offset from the header and walks into the same
\* TagMap, which keeps every key it held (the TagMap never loses a key);
\* with an invalid header or the designator NullIFD it returns
\* ErrInvalidHeader and leaves the reader and the TagMap as they were.
C24_ParseIfdReentrant ==
    /\ [][reparses' = reparses + 1 =>
            IF IsValid(ParseIfdHeader) /\ ParseIfdHeader.firstIfd # NullIFD
            THEN /\ epc' = "scan"
                 /\ walk'.op = "ParseIfd"
                 /\ exifData'.reader.byteOrder = ParseIfdHeader.byteOrder
                 /\ exifData'.reader.exifLength = ParseIfdHeader.exifLength
                 /\ exifData'.reader.exifOffset = ParseIfdHeader.tiffHeaderOffset
                 /\ exifData'.tagMap = exifData.tagMap
            ELSE /\ epc' = "idle"
                 /\ ret'.op = "ParseIfd"
                 /\ ret'.err = ErrInvalidHeader
                 /\ exifData' = exifData]_vars
    /\ [][exifData # NoData =>
            /\ exifData' # NoData
            /\ \A k \in DOMAIN exifData.tagMap : k \in DOMAIN exifData'.tagMap]_vars
    /\ [][epc = "scan" => exifData'.reader = exifData.reader]_vars

\* C24 witness: ParseIfd has returned from a second walk, made with another
\* byte order, Exif length and TIFF offset than the first, and the TagMap
\* holds a key that the second walk did not insert
C24_Witness ==
    /\ ret.op = "ParseIfd"
    /\ ret.err = NoErr
    /\ ret.scanned # <<>>
    /\ ret.header.byteOrder = "BigEndian"
    /\ exifData.reader.byteOrder = "BigEndian"
    /\ exifData.reader.exifLength = MaxDirs - 1
    /\ exifData.reader.exifOffset = 1
    /\ \E k \in DOMAIN exifData.tagMap :
          \A i \in DOMAIN ret.scanned : k \notin DOMAIN DirTags(ret.scanned[i])

\* ParseIfd has rejected a header and left the reader and the TagMap of a
\* resolved Data alone
C24_Rejected ==
    /\ ret.op = "ParseIfd"
    /\ ret.err = ErrInvalidHeader
    /\ ~IsValid(ret.header)
    /\ exifData.reader.byteOrder = "LittleEndian"
    /\ exifData.tagMap # <<>>

\* C25: ScanJPEG terminates on every finite stream (the callbacks of the
\* model return or panic): an iteration after which the loop goes on has
\* consumed at least one byte, the bytes consumed never exceed the length of
\* the stream, and ScanJPEG leaves the loop in the end.
C25_ScanTerminates ==
    /\ [][pc' = "loop" => br' > br]_vars
    /\ [](br <= Len(data))
    /\ <>(pc # "loop")

\* C25 witness: the scan went on after a segment whose declared length
\* exceeds what is left of the stream, and the failing peek ended it with
\* the whole stream consumed
C25_Witness ==
    /\ Done
    /\ last.op = "PeekFail"
    /\ err = ErrNoJPEGMarker
    /\ br = Len(data)
    /\ br > peekSize

\* no ParseIfd was called on the Data since the goroutine g started
Unraced(g) == reparses = g.born

\* what C26 says of a receiver that receives until the channel is closed:
\* no entry is delivered twice, and when the channel is closed every entry
\* of the TagMap was delivered
DeliveredOnce ==
    \A i \in DOMAIN gos :
        /\ gos[i].count = Cardinality(gos[i].sent)
        /\ (gos[i].exited /\ Unraced(gos[i])) =>
              /\ gos[i].sent = DOMAIN exifData.tagMap
              /\ gos[i].count = Cardinality(DOMAIN exifData.tagMap)

\* the goroutine of a receiver that goes on receiving closes the channel
\* and ends
ProducerEnds ==
    \A i \in 1..MaxRange :
        (Len(gos) >= i) ~> (Len(gos) >= i /\ (gos[i].exited \/ gos[i].stopped))

\* C26 as stated: with a receiver that receives until the channel is
\* closed, and no ParseIfd meanwhile, every entry of the TagMap is delivered
\* exactly once, then the channel is closed and the goroutine ends; if the
\* receiver stops receiving before the channel is closed, the goroutine
\* never ends.
C26_StoppedNeverEnds ==
    /\ []DeliveredOnce
    /\ ProducerEnds
    /\ [](\A i \in DOMAIN gos : gos[i].stopped => ~gos[i].exited)

\* C26 (amended): the same, but the goroutine never ends if the receiver
\* stops receiving before it has received every entry; when the receiver
\* stops after the last entry, without waiting for the close, the goroutine
\* closes the channel and ends.
C26_RangeDelivers ==
    /\ []DeliveredOnce
    /\ ProducerEnds
    /\ [](\A i \in DOMAIN gos :
            (gos[i].stopped /\ ~rangeDone(gos[i])) => ~gos[i].exited)

\* C26 witness: every entry of a TagMap of three entries or more was
\* delivered and the channel closed
C26_Witness ==
    /\ gos # <<>>
    /\ gos[1].exited
    /\ ~gos[1].stopped
    /\ Unraced(gos[1])
    /\ gos[1].count >= 3
    /\ gos[1].sent = DOMAIN exifData.tagMap

\* the receiver has stopped with entries left, and the goroutine is blocked
C26_Blocked ==
    /\ gos # <<>>
    /\ gos[1].stopped
    /\ gos[1].count >= 1
    /\ ~rangeDone(gos[1])
    /\ ~gos[1].exited

\* C27: the nesting counter is the number of SOI markers processed less the
\* number of EOI markers processed: it starts at 0, an iteration that
\* processes an SOI adds 1 to it, whatever the number of SOI markers
\* before, one that processes an EOI takes 1 from it and is made only while
\* it is at least 1, and no other iteration changes it; it is never
\* negative.
C27_CounterIsSOILessEOI ==
    /\ [](pos >= 0)
    /\ [][(last'.op = "SOI" => pos' = pos + 1)
           /\ (last'.op = "EOI" => (pos >= 1 /\ pos' = pos - 1))
           /\ (last'.op \notin {"SOI", "EOI"} => pos' = pos)]_vars

\* the same on the streams with fewer SOI markers than the counter has values
C27_ShallowCounter ==
    [][Len(data) < 2 * MaxNesting =>
         (/\ pos >= 0
          /\ last'.op = "SOI" => pos' = pos + 1
          /\ last'.op = "EOI" => (pos >= 1 /\ pos' = pos - 1)
          /\ last'.op \notin {"SOI", "EOI"} => pos' = pos)]_vars

\* an Exif segment of the innermost of 256 nested images was left unread:
\* the counter was 0 once more
C27_Wrapped ==
    /\ Done
    /\ last.op = "NoImage"
    /\ last.at = 2 * MaxNesting
    /\ At(last.at, 1) = markerAPP1
    /\ pos = 0
    /\ calls = <<>>
    /\ exifSet

\* the goroutines of DCT2D and what the next step of each accesses
Goroutines ==
    {<<"main", 0>>} \cup {<<"row", i>> : i \in Rows} \cup {<<"col", i>> : i \in Cols}
NextAccess(g) ==
    CASE g[1] = "main" -> MainAccess
      [] g[1] = "row" -> RowAccess(g[2])
      [] g[1] = "col" -> ColAccess(g[2])

\* two goroutines are about to access the same slot or cell, one of them
\* writing it
DataRace ==
    \E g1 \in Goroutines, g2 \in Goroutines :
        /\ g1 # g2
        /\ \E a \in NextAccess(g1), b \in NextAccess(g2) :
              a.loc = b.loc /\ (a.write \/ b.write)

RowRunning(i) == rowgs[i] \in {"transform", "assign", "done"}
ColRunning(i) == colgs[i].pc \in {"gather", "transform", "scatter", "done"}

\* C28: in DCT2D no two goroutines that can run at the same time access the
\* same output cell or row slot with one of them writing: a row goroutine
\* accesses only its own row, a column goroutine runs only when every row
\* goroutine has ended, it writes only cells of its own column and no row
\* slot, and DCT2D returns only when every column goroutine has ended.
C28_NoDataRace ==
    /\ ~DataRace
    /\ \A i \in Rows : \A a \in RowAccess(i) :
          a.loc = Slot(i) \/ \E c \in Cols : a.loc = Cell(i, c)
    /\ \A i \in Cols :
          /\ ColRunning(i) => \A r \in Rows : rowgs[r] = "exited"
          /\ \A a \in ColAccess(i) :
                IF a.write THEN \E r \in Rows : a.loc = Cell(r, i)
                ELSE \E r \in Rows : a.loc \in {Slot(r), Cell(r, i)}
    /\ main.pc = "returned" =>
          /\ \A r \in Rows : rowgs[r] = "exited"
          /\ \A i \in Cols : colgs[i].pc = "exited"

\* C28 witness: two column goroutines are writing their columns at the same
\* time, in different rows
C28_Witness ==
    /\ dims.w >= 2
    /\ dims.h >= 2
    /\ colgs[0].pc = "scatter"
    /\ colgs[1].pc = "scatter"
    /\ colgs[0].j # colgs[1].j

\* two row goroutines are running at the same time
C28_RowsTogether ==
    /\ dims.h >= 2
    /\ rowgs[0] = "transform"
    /\ rowgs[1] = "assign"

====
